---- MODULE Spec2Model ----
(***************************************************************************)
(* A model of icebase: the per-statement dispatcher (IceBase.handleQuery), *)
(* the per-table log store (Log: schema_log and insert_log inside log.db), *)
(* the parquet data files, and the storage backends (FSStorage, S3Storage).*)
(*                                                                         *)
(* The specifications share the variables:                                 *)
(*   Spec      one statement at a time through handleQuery, with process   *)
(*             restarts and injected I/O failures;                         *)
(*   SpecFS    one client of the storage interface (whole operations);     *)
(*   SpecRace  two writers racing on a conditional write;                  *)
(*   SpecConc  two concurrent requests stepping through handleQuery;       *)
(*   SpecBatch whole request bodies through handleQuery, and Destroy;      *)
(*   SpecRows  the encoding of one result set by ExecuteQuery;             *)
(*   SpecHTTP  requests through RequestHandler;                            *)
(*   SpecHandles  concurrent calls of logByName.                           *)
(***************************************************************************)
EXTENDS Integers, Sequences, FiniteSets, TLC

(***************************************************************************)
(* Bounds and input domains.                                               *)
(***************************************************************************)
\* Number of statements (and restarts) one run of Spec executes.
MaxStmts == 4

Tables == {"t1"}
\* Column lists a CREATE TABLE may declare, and an INSERT may supply.
Cols == {"a", "ab"}
\* Row values; a bag of rows is a function from Values to a count.
Values == {1, 2}

RECURSIVE SumOver(_, _)
SumOver(f, S) ==
    IF S = {} THEN 0
    ELSE LET x == CHOOSE y \in S : TRUE IN f[x] + SumOver(f, S \ {x})

NoRows == [v \in Values |-> 0]
BagSize(b) == SumOver(b, Values)
BagAdd(a, b) == [v \in Values |-> a[v] + b[v]]
\* The row sets one INSERT statement may carry: no row, one row, two rows.
Batches == {b \in [Values -> {0, 1}] : b[2] <= b[1]}

(***************************************************************************)
(* Statements.  A statement is the SQL text of one request, abstracted to  *)
(* its form, its table, the columns it names and the rows it carries.      *)
(***************************************************************************)
DDLKinds == {"create", "create_if_not_exists", "create_or_replace"}

Stmt(k, t, c, r) == [kind |-> k, table |-> t, cols |-> c, rows |-> r]

\* CREATE TABLE t (a), CREATE TABLE IF NOT EXISTS t (a), CREATE OR REPLACE TABLE t (a, b).
CreateStmts == {Stmt("create", t, "a", NoRows) : t \in Tables}
                  \cup {Stmt("create_if_not_exists", t, "a", NoRows) : t \in Tables}
                  \cup {Stmt("create_or_replace", t, "ab", NoRows) : t \in Tables}
InsertStmts == {Stmt("insert", t, c, r) : t \in Tables, c \in Cols, r \in Batches}
SelectStmts == {Stmt("select", t, "a", NoRows) : t \in Tables}
VacuumStmts == {Stmt("vacuum", t, "a", NoRows) : t \in Tables}
\* DROP TABLE t, and SELECT 1 (a statement that names no table).
OtherStmts  == {Stmt("drop", t, "a", NoRows) : t \in Tables}
                  \cup {Stmt("select_const", "", "a", NoRows)}
Stmts == CreateStmts \cup InsertStmts \cup SelectStmts \cup VacuumStmts \cup OtherStmts
NoStmt == Stmt("none", "", "a", NoRows)

\* Parser.Parse: the operation kind and the primary table of a statement.
Parse(stmt) ==
    CASE stmt.kind \in DDLKinds      -> [op |-> "CreateTable", table |-> stmt.table]
      [] stmt.kind = "insert"        -> [op |-> "Insert", table |-> stmt.table]
      [] stmt.kind = "select"        -> [op |-> "Select", table |-> stmt.table]
      [] stmt.kind = "select_const"  -> [op |-> "Select", table |-> ""]
      [] stmt.kind = "vacuum"        -> [op |-> "Vacuum", table |-> stmt.table]
      [] OTHER                       -> [op |-> "Other", table |-> ""]

(***************************************************************************)
(* The analytical engine's transaction: which tables exist in it, with     *)
(* their columns and rows.  The in-memory session holds nothing between    *)
(* statements, so every transaction starts from EmptyTx.                   *)
(***************************************************************************)
NoTable == [exists |-> FALSE, cols |-> "a", rows |-> NoRows]
NewTable(c) == [exists |-> TRUE, cols |-> c, rows |-> NoRows]
EmptyTx == [t \in Tables |-> NoTable]

\* tx.Exec of one logged CREATE statement: [err, tx].
ExecDDL(q, tx) ==
    LET t == q.table IN
    CASE q.kind = "create" ->
            IF tx[t].exists
            THEN [err |-> "table already exists", tx |-> tx]
            ELSE [err |-> "", tx |-> [tx EXCEPT ![t] = NewTable(q.cols)]]
      [] q.kind = "create_if_not_exists" ->
            IF tx[t].exists
            THEN [err |-> "", tx |-> tx]
            ELSE [err |-> "", tx |-> [tx EXCEPT ![t] = NewTable(q.cols)]]
      [] q.kind = "create_or_replace" ->
            [err |-> "", tx |-> [tx EXCEPT ![t] = NewTable(q.cols)]]

\* Replaying a sequence of logged CREATE statements, stopping at the first error.
RECURSIVE ReplayAll(_, _)
ReplayAll(qs, tx) ==
    IF qs = << >> THEN [err |-> "", tx |-> tx]
    ELSE LET r == ExecDDL(Head(qs), tx) IN
         IF r.err # "" THEN r ELSE ReplayAll(Tail(qs), r.tx)

(***************************************************************************)
(* The state.                                                              *)
(*   logs    ib.logs: per table, no handle ("none"), a handle whose log    *)
(*           database is not opened yet ("new"), or an opened one ("open") *)
(*   db      <root>/<table>/log/log.db: whether the file exists, and the   *)
(*           rows of schema_log (in timestamp order) and of insert_log     *)
(*   files   <root>/<table>/data/<id>.parquet: id -> columns and rows      *)
(*   nextId  the next value of uuidv7() (unique and increasing)            *)
(*   nstmt   statements handled so far                                     *)
(*   last    what the last step did (a history variable)                   *)
(***************************************************************************)
VARIABLES logs, db, files, nextId, nstmt, last

engineVars == <<logs, db, files, nextId, nstmt, last>>

NoDB == [exists |-> FALSE, schema_log |-> << >>, insert_log |-> << >>]
NoFiles == << >>
NoResp == [meta |-> "", data |-> NoRows, isNil |-> TRUE]

\* The points at which the log database or the file system may fail.
FailPoints == {"none", "getdb", "ddl", "log_insert", "copy", "stat", "update",
               "merge_copy", "merge_log"}

\* The working state of one statement: the durable state, the handles, the
\* statement's in-memory transaction, its error and its response.
Ctx(l, d, f, n) ==
    [logs |-> l, db |-> d, files |-> f, nextId |-> n,
     tx |-> EmptyTx, err |-> "", resp |-> NoResp, id |-> 0, rec |-> "none"]

Fail(c, e) == [c EXCEPT !.err = e]

\* Size of a parquet file on disk: never 0, growing with its rows.
ParquetSize(rows) == 1 + BagSize(rows)

\* The live set: the ids of the insert_log rows with tombstoned_unix_time = 0.
LiveIds(log) == {log[i].id : i \in {j \in DOMAIN log : log[j].tombstoned = 0}}
AllIds(log) == {log[i].id : i \in DOMAIN log}

\* The rows of the files fs[id], id in ids, taken together.
RECURSIVE UnionRows(_, _)
UnionRows(fs, ids) ==
    IF ids = {} THEN NoRows
    ELSE LET x == CHOOSE y \in ids : TRUE IN
         BagAdd(fs[x].rows, UnionRows(fs, ids \ {x}))

\* IceBase.logByName: the table's handle, created on first reference.
logByName(c, t) ==
    IF c.logs[t] # "none" THEN c ELSE [c EXCEPT !.logs[t] = "new"]

\* getDB with CREATE OR REPLACE TABLE in place of CREATE TABLE IF NOT EXISTS:
\* opening a handle empties schema_log and insert_log.
getDB_Recreate(c, t, fail) ==
    IF c.logs[t] = "open" THEN c
    ELSE IF fail = "getdb" THEN Fail(c, "failed to create log directory")
    ELSE [c EXCEPT !.logs[t] = "open", !.db[t] = [NoDB EXCEPT !.exists = TRUE]]

\* Log.getDB: opens log.db on first use of a handle; CREATE TABLE IF NOT EXISTS
\* keeps the rows of an existing log.db.
getDB(c, t, fail) ==
    IF c.logs[t] = "open" THEN c
    ELSE IF fail = "getdb" THEN Fail(c, "failed to create log directory")
    ELSE [c EXCEPT !.logs[t] = "open",
                   !.db[t] = IF c.db[t].exists
                             THEN c.db[t]
                             ELSE [NoDB EXCEPT !.exists = TRUE]]

\* RecreateSchema that opens the log database and replays nothing.
RecreateSchema_NoReplay(c, t, fail) == getDB(c, t, fail)

\* Log.RecreateSchema: replays every schema_log row, in timestamp order, in tx.
RecreateSchema(c, t, fail) ==
    LET c1 == getDB(c, t, fail) IN
    IF c1.err # "" THEN c1
    ELSE LET r == ReplayAll(c1.db[t].schema_log, c1.tx) IN
         IF r.err # ""
         THEN Fail(c1, "failed to execute schema_log query")
         ELSE [c1 EXCEPT !.tx = r.tx]

\* RecreateAsView that fills the table with the rows of every file insert_log
\* names, without the tombstone filter.
RecreateAsView_AllFiles(c, t, fail) ==
    LET c1 == getDB(c, t, fail) IN
    IF c1.err # "" THEN c1
    ELSE LET log == c1.db[t].schema_log
             r   == IF log = << >>
                    THEN [err |-> "", tx |-> c1.tx]
                    ELSE ExecDDL(log[1], c1.tx)
             ids == AllIds(c1.db[t].insert_log) \cap DOMAIN c1.files[t]
         IN IF r.err # ""
            THEN Fail(c1, "failed to execute schema_log query")
            ELSE IF ~r.tx[t].exists THEN [c1 EXCEPT !.tx = r.tx]
            ELSE [c1 EXCEPT !.tx = [r.tx EXCEPT ![t].rows = UnionRows(c1.files[t], ids)]]

\* Log.RecreateAsView: executes the first schema_log row in tx and stops.
RecreateAsView(c, t, fail) ==
    LET c1 == getDB(c, t, fail) IN
    IF c1.err # "" THEN c1
    ELSE LET log == c1.db[t].schema_log
             r   == IF log = << >>
                    THEN [err |-> "", tx |-> c1.tx]
                    ELSE ExecDDL(log[1], c1.tx)
         IN IF r.err # ""
            THEN Fail(c1, "failed to execute schema_log query")
            ELSE [c1 EXCEPT !.tx = r.tx]

\* IceBase.ExecuteQuery: runs the statement in tx and collects its rows.
ExecuteQuery(c, stmt) ==
    LET t == stmt.table IN
    CASE stmt.kind \in DDLKinds ->
            LET r == ExecDDL(stmt, c.tx) IN
            IF r.err # "" THEN Fail(c, "query error")
            ELSE [c EXCEPT !.tx = r.tx, !.resp = NoResp]
      [] stmt.kind = "insert" ->
            IF ~c.tx[t].exists \/ c.tx[t].cols # stmt.cols
            THEN Fail(c, "query error")
            ELSE [c EXCEPT !.tx[t].rows = BagAdd(@, stmt.rows), !.resp = NoResp]
      [] stmt.kind = "select" ->
            IF ~c.tx[t].exists THEN Fail(c, "query error")
            ELSE [c EXCEPT !.resp = [meta |-> c.tx[t].cols,
                                     data |-> c.tx[t].rows,
                                     isNil |-> BagSize(c.tx[t].rows) = 0]]
      [] stmt.kind = "select_const" ->
            [c EXCEPT !.resp = [meta |-> "const",
                                data |-> [v \in Values |-> IF v = 1 THEN 1 ELSE 0],
                                isNil |-> FALSE]]
      [] stmt.kind = "drop" ->
            IF ~c.tx[t].exists THEN Fail(c, "query error")
            ELSE [c EXCEPT !.tx[t] = NoTable, !.resp = NoResp]
      \* A text with no statement in it: the driver's "empty query" is not an error.
      [] stmt.kind = "comment" -> [c EXCEPT !.resp = NoResp]
      [] OTHER -> Fail(c, "query error")

\* Log.createTable: appends the raw statement to schema_log.
createTable(c, t, stmt, fail) ==
    LET c1 == getDB(c, t, fail) IN
    IF c1.err # "" THEN c1
    ELSE IF fail = "ddl" THEN Fail(c1, "failed to log table creation")
    ELSE [c1 EXCEPT !.db[t].schema_log = Append(@, stmt)]

\* Insert that never records the size of the file it wrote.
Insert_NoSize(c, t, fail) ==
    LET c1 == getDB(c, t, fail) IN
    IF c1.err # "" THEN c1
    ELSE IF fail \in {"log_insert", "copy", "stat", "update"} THEN Fail(c1, "failed to insert")
    ELSE LET id == c1.nextId IN
         [c1 EXCEPT !.db[t].insert_log = Append(@, [id |-> id, tombstoned |-> 0, size |-> 0]),
                    !.nextId = id + 1, !.id = id,
                    !.files[t] = (id :> [cols |-> c1.tx[t].cols, rows |-> c1.tx[t].rows]) @@ @]

\* Insert that copies the table to one file name, whatever the id of the row.
Insert_OnePath(c, t, fail) ==
    LET c1 == getDB(c, t, fail) IN
    IF c1.err # "" THEN c1
    ELSE IF fail \in {"log_insert", "copy", "stat", "update"} THEN Fail(c1, "failed to insert")
    ELSE LET id == c1.nextId IN
         [c1 EXCEPT !.db[t].insert_log =
                        Append(@, [id |-> id, tombstoned |-> 0,
                                   size |-> ParquetSize(c1.tx[t].rows)]),
                    !.nextId = id + 1, !.id = id,
                    !.files[t] = (1 :> [cols |-> c1.tx[t].cols, rows |-> c1.tx[t].rows]) @@ @]

\* Insert whose last UPDATE has no WHERE and clears the tombstones with the size.
Insert_Revive(c, t, fail) ==
    LET c1 == getDB(c, t, fail) IN
    IF c1.err # "" THEN c1
    ELSE IF fail \in {"log_insert", "copy", "stat", "update"} THEN Fail(c1, "failed to insert")
    ELSE LET id == c1.nextId
             size == ParquetSize(c1.tx[t].rows)
         IN
         [c1 EXCEPT !.db[t].insert_log =
                        Append([i \in DOMAIN @ |-> [@[i] EXCEPT !.tombstoned = 0]],
                               [id |-> id, tombstoned |-> 0, size |-> size]),
                    !.nextId = id + 1, !.id = id,
                    !.files[t] = (id :> [cols |-> c1.tx[t].cols, rows |-> c1.tx[t].rows]) @@ @]

\* Log.Insert: a new insert_log row first, then COPY to <id>.parquet, then
\* stat, then the size update; every failure returns at once.
Insert(c, t, fail) ==
    LET c1 == getDB(c, t, fail) IN
    IF c1.err # "" THEN c1
    ELSE IF fail = "log_insert" THEN Fail(c1, "failed to insert into insert_log")
    ELSE
    LET id  == c1.nextId
        row == [id |-> id, tombstoned |-> 0, size |-> 0]
        c2  == [c1 EXCEPT !.db[t].insert_log = Append(@, row),
                          !.nextId = id + 1, !.id = id]
    IN
    IF fail = "copy" THEN Fail(c2, "failed to copy to parquet")
    ELSE
    LET content == [cols |-> c2.tx[t].cols, rows |-> c2.tx[t].rows]
        c3 == [c2 EXCEPT !.files[t] = (id :> content) @@ @]
    IN
    IF fail = "stat" THEN Fail(c3, "failed to get parquet file size")
    ELSE IF fail = "update" THEN Fail(c3, "failed to update insert_log size")
    ELSE [c3 EXCEPT !.db[t].insert_log =
            [i \in DOMAIN @ |->
                IF @[i].id = id
                THEN [@[i] EXCEPT !.size = ParquetSize(content.rows)]
                ELSE @[i]]]

(***************************************************************************)
(* Vacuum.  Log.Merge is called by handleQuery; it reads the live set,     *)
(* builds the read view over the live files, writes the merged file and,   *)
(* in one log-DB transaction, adds its row and tombstones the old rows.    *)
(***************************************************************************)
Merge(c, t, fail) ==
    LET c1 == getDB(c, t, fail) IN
    IF c1.err # "" THEN c1
    ELSE
    LET L == LiveIds(c1.db[t].insert_log) IN
    IF ~c1.tx[t].exists THEN Fail(c1, "merge: table has no schema")
    ELSE IF \E id \in L : id \notin DOMAIN c1.files[t]
    THEN Fail(c1, "merge: live file missing")
    ELSE IF fail = "merge_copy" THEN Fail(c1, "merge: copy failed")
    ELSE
    LET u == c1.nextId
        content == [cols |-> c1.tx[t].cols, rows |-> UnionRows(c1.files[t], L)]
        c2 == [c1 EXCEPT !.files[t] = (u :> content) @@ @,
                         !.nextId = u + 1, !.id = u]
    IN
    IF fail = "merge_log" THEN Fail(c2, "merge: log transaction failed")
    ELSE [c2 EXCEPT !.db[t].insert_log =
            Append([i \in DOMAIN @ |->
                      IF @[i].tombstoned = 0
                      THEN [@[i] EXCEPT !.tombstoned = u]
                      ELSE @[i]],
                   [id |-> u, tombstoned |-> 0, size |-> ParquetSize(content.rows)])]

(***************************************************************************)
(* IceBase.handleQuery for one statement: recovery, execution, log         *)
(* emission.  The in-memory transaction is rolled back on every path, so   *)
(* only the handles, the log databases and the files outlive the call.     *)
(***************************************************************************)
\* Recovery that replays the schema whatever the operation.
Recover_AlwaysSchema(c, p, fail) ==
    IF p.table = "" THEN c
    ELSE RecreateSchema([logByName(c, p.table) EXCEPT !.rec = "schema"], p.table, fail)

\* Pre-statement recovery (icebase.go 347-370); rec notes which one was called.
Recover(c, p, fail) ==
    IF p.table = "" THEN c
    ELSE LET c1 == logByName(c, p.table) IN
         IF p.op \in {"Select", "Vacuum"}
         THEN RecreateAsView([c1 EXCEPT !.rec = "view"], p.table, fail)
         ELSE RecreateSchema([c1 EXCEPT !.rec = "schema"], p.table, fail)

\* VACUUM answered with the empty response without calling Merge.
Execute_NoMerge(c, p, stmt, fail) ==
    IF p.op = "Vacuum"
    THEN IF p.table = "" THEN Fail(c, "VACUUM requires a table name")
         ELSE [logByName(c, p.table) EXCEPT !.resp = [NoResp EXCEPT !.isNil = FALSE]]
    ELSE ExecuteQuery(c, stmt)

\* VACUUM that answers with the empty response whatever Merge returned.
Execute_IgnoreMergeError(c, p, stmt, fail) ==
    IF p.op = "Vacuum"
    THEN IF p.table = "" THEN Fail(c, "VACUUM requires a table name")
         ELSE [Merge(logByName(c, p.table), p.table, fail) EXCEPT
                  !.err = "", !.resp = [NoResp EXCEPT !.isNil = FALSE]]
    ELSE ExecuteQuery(c, stmt)

\* Execution (icebase.go 372-400).
Execute(c, p, stmt, fail) ==
    IF p.op = "Vacuum"
    THEN IF p.table = "" THEN Fail(c, "VACUUM requires a table name")
         ELSE LET c1 == Merge(logByName(c, p.table), p.table, fail) IN
              IF c1.err # "" THEN c1 ELSE [c1 EXCEPT !.resp = [NoResp EXCEPT !.isNil = FALSE]]
    ELSE ExecuteQuery(c, stmt)

\* Log emission that logs the statement of every operation but Insert as DDL.
Emit_AnyOp(c, p, stmt, fail) ==
    IF p.table = "" THEN c
    ELSE IF p.op = "Insert" THEN Insert(c, p.table, fail)
    ELSE createTable(c, p.table, stmt, fail)

\* Log emission (icebase.go 401-415).
Emit(c, p, stmt, fail) ==
    IF p.table = "" THEN c
    ELSE IF p.op = "CreateTable" THEN createTable(c, p.table, stmt, fail)
    ELSE IF p.op = "Insert" THEN Insert(c, p.table, fail)
    ELSE c

\* handleQuery that emits the log event before it runs the statement.
handleStatement_EmitFirst(c, stmt, fail) ==
    LET p  == Parse(stmt)
        c1 == Recover(c, p, fail)
        c2 == IF c1.err # "" THEN c1 ELSE Emit(c1, p, stmt, fail)
        c3 == IF c2.err # "" THEN c2 ELSE Execute(c2, p, stmt, fail)
    IN c3

handleStatement(c, stmt, fail) ==
    LET p  == Parse(stmt)
        c1 == Recover(c, p, fail)
        c2 == IF c1.err # "" THEN c1 ELSE Execute(c1, p, stmt, fail)
        c3 == IF c2.err # "" THEN c2 ELSE Emit(c2, p, stmt, fail)
    IN c3

Here == Ctx(logs, db, files, nextId)

\* The I/O steps a statement of each form goes through, and so can fail at.
FailsOf(stmt) ==
    CASE stmt.kind \in DDLKinds -> {"none", "getdb", "ddl"}
      [] stmt.kind = "insert"   -> {"none", "getdb", "log_insert", "copy", "stat", "update"}
      [] stmt.kind = "select"   -> {"none", "getdb"}
      [] stmt.kind = "vacuum"   -> {"none", "getdb", "merge_copy", "merge_log"}
      [] OTHER                  -> {"none"}

\* One request with one statement.
HandleQuery ==
    /\ nstmt < MaxStmts
    /\ \E stmt \in Stmts : \E fail \in FailsOf(stmt) :
         LET c == handleStatement(Here, stmt, fail) IN
         /\ logs' = c.logs
         /\ db' = c.db
         /\ files' = c.files
         /\ nextId' = c.nextId
         /\ nstmt' = nstmt + 1
         /\ last' = [kind |-> "stmt", stmt |-> stmt, err |-> c.err,
                     resp |-> IF c.err # "" THEN NoResp ELSE c.resp, id |-> c.id,
                     rec |-> c.rec, fail |-> fail]

\* The process exits and starts again: the handles and the session are gone,
\* log.db and the data files stay.
Restart ==
    /\ nstmt < MaxStmts
    /\ logs' = [t \in Tables |-> "none"]
    /\ nstmt' = nstmt + 1
    /\ last' = [kind |-> "restart", stmt |-> NoStmt, err |-> "", resp |-> NoResp, id |-> 0,
                rec |-> "none", fail |-> "none"]
    /\ UNCHANGED <<db, files, nextId>>

EngineInit ==
    /\ logs = [t \in Tables |-> "none"]
    /\ db = [t \in Tables |-> NoDB]
    /\ files = [t \in Tables |-> NoFiles]
    /\ nextId = 1
    /\ nstmt = 0
    /\ last = [kind |-> "init", stmt |-> NoStmt, err |-> "", resp |-> NoResp, id |-> 0,
               rec |-> "none", fail |-> "none"]

(***************************************************************************)
(* The storage backends.                                                   *)
(*   store   the objects of the filesystem backend: path -> exists, data   *)
(*   dirs    the directories that exist under the storage root             *)
(*   nops    storage operations done so far                                *)
(*   fsLast  what the last storage operation did (a history variable)      *)
(***************************************************************************)
VARIABLES store, dirs, nops, fsLast

\* Number of storage operations one run of SpecFS executes.
MaxOps == 3

Paths == {"p", "d/q"}
Contents == {"a", "b", "c"}
\* filepath.Dir: the directory a path lies in ("" is the storage root).
DirOf(p) == IF p = "d/q" THEN "d" ELSE ""

\* bytesToETag: the MD5 of the content, in hex.
bytesToETag(data) ==
    CASE data = "a" -> "0cc175b9c0f1b6a831c399e269772661"
      [] data = "b" -> "92eb5ffee6ae2fec3ad71c777531578f"
      [] data = "c" -> "4a8a08f09d37b73795649038408b5f33"
      [] OTHER      -> "d41d8cd98f00b204e9800998ecf8427e"

\* The options of a Write call: none, or WithIfMatch(etag).
NoOpt == [given |-> FALSE, etag |-> ""]
WithIfMatch(e) == [given |-> TRUE, etag |-> e]
IfMatchValues == {""} \cup {bytesToETag(d) : d \in Contents} \cup {"stale"}
WriteOpts == {NoOpt} \cup {WithIfMatch(e) : e \in IfMatchValues}
\* writeConfig after the options are applied: the zero value without options.
writeConfig(opts) == [etag |-> IF opts.given THEN opts.etag ELSE ""]

NoObject == [exists |-> FALSE, data |-> ""]
Object(d) == [exists |-> TRUE, data |-> d]
FSState(st, ds) == [store |-> st, dirs |-> ds]
DirExists(fs, p) == DirOf(p) = "" \/ DirOf(p) \in fs.dirs

\* Stat that makes the ETag of the length of the file, not of its bytes.
FSStat_SizeETag(fs, p) ==
    IF ~DirExists(fs, p) \/ ~fs.store[p].exists
    THEN [err |-> "not exist", etag |-> "", data |-> ""]
    ELSE [err |-> "", etag |-> "len-1", data |-> ""]

\* FSStorage.Stat: the ETag and size of the file, or an error.
FSStat(fs, p) ==
    IF ~DirExists(fs, p) \/ ~fs.store[p].exists
    THEN [err |-> "not exist", etag |-> "", data |-> ""]
    ELSE [err |-> "", etag |-> bytesToETag(fs.store[p].data), data |-> ""]

\* FSStorage.Read: the content and its ETag, or an error.
FSRead(fs, p) ==
    IF ~DirExists(fs, p) \/ ~fs.store[p].exists
    THEN [err |-> "not exist", etag |-> "", data |-> ""]
    ELSE [err |-> "", etag |-> bytesToETag(fs.store[p].data), data |-> fs.store[p].data]

\* The ETag check of FSStorage.Write (main.go 572-585): "" when the write may proceed.
FSWriteCheck(fs, p, cfg) ==
    IF cfg.etag = "" THEN ""
    ELSE LET fi == FSStat(fs, p) IN
         IF fi.err # "" THEN "failed to check etag, does not exist"
         ELSE IF fi.etag # cfg.etag THEN "IfMatch: ETag mismatch"
         ELSE ""

\* os.WriteFile, with the directory created when the first attempt finds none
\* (main.go 587-596).
FSWriteFile(fs, p, data) ==
    [store |-> [fs.store EXCEPT ![p] = Object(data)],
     dirs  |-> IF DirOf(p) = "" THEN fs.dirs ELSE fs.dirs \cup {DirOf(p)}]

\* FSStorage.Write without the comparison of the ETags.
FSWrite_NoCompare(fs, p, data, opts) ==
    LET cfg == writeConfig(opts) IN
    IF cfg.etag # "" /\ FSStat(fs, p).err # ""
    THEN [err |-> "failed to check etag, does not exist", fs |-> fs]
    ELSE [err |-> "", fs |-> FSWriteFile(fs, p, data)]

\* FSStorage.Write.
FSWrite(fs, p, data, opts) ==
    LET e == FSWriteCheck(fs, p, writeConfig(opts)) IN
    IF e # "" THEN [err |-> e, fs |-> fs]
    ELSE [err |-> "", fs |-> FSWriteFile(fs, p, data)]

\* FSStorage.Delete: os.Remove, a missing file is no error.
\* os.Remove of a file: ENOENT when there is none.
osRemove(fs, p) ==
    IF fs.store[p].exists
    THEN [err |-> "", fs |-> [fs EXCEPT !.store[p] = NoObject]]
    ELSE [err |-> "ENOENT", fs |-> fs]

\* Delete that hands every error of os.Remove to the caller.
FSDelete_Strict(fs, p) == osRemove(fs, p)

FSDelete(fs, p) ==
    LET r == osRemove(fs, p) IN
    IF r.err # "" /\ r.err = "ENOENT" THEN [err |-> "", fs |-> r.fs] ELSE r

FSHere == FSState(store, dirs)

FSOp(op, p, data, opts, err, etag, before) ==
    [op |-> op, path |-> p, data |-> data, opts |-> opts,
     err |-> err, etag |-> etag, before |-> before]

DoWrite ==
    /\ nops < MaxOps
    /\ \E p \in Paths, d \in Contents, o \in WriteOpts :
         LET r == FSWrite(FSHere, p, d, o) IN
         /\ store' = r.fs.store
         /\ dirs' = r.fs.dirs
         /\ fsLast' = FSOp("write", p, d, o, r.err, "", store[p])
    /\ nops' = nops + 1

DoStat ==
    /\ nops < MaxOps
    /\ \E p \in Paths :
         LET r == FSStat(FSHere, p) IN
         fsLast' = FSOp("stat", p, "", NoOpt, r.err, r.etag, store[p])
    /\ nops' = nops + 1
    /\ UNCHANGED <<store, dirs>>

DoRead ==
    /\ nops < MaxOps
    /\ \E p \in Paths :
         LET r == FSRead(FSHere, p) IN
         fsLast' = FSOp("read", p, r.data, NoOpt, r.err, r.etag, store[p])
    /\ nops' = nops + 1
    /\ UNCHANGED <<store, dirs>>

DoDelete ==
    /\ nops < MaxOps
    /\ \E p \in Paths :
         LET r == FSDelete(FSHere, p) IN
         /\ store' = r.fs.store
         /\ dirs' = r.fs.dirs
         /\ fsLast' = FSOp("delete", p, "", NoOpt, r.err, "", store[p])
    /\ nops' = nops + 1

FSInit ==
    /\ store = [p \in Paths |-> NoObject]
    /\ dirs = {}
    /\ nops = 0
    /\ fsLast = FSOp("init", "p", "", NoOpt, "", "", NoObject)

fsVars == <<store, dirs, nops, fsLast>>

(***************************************************************************)
(* Two writers racing on one object: each reads the ETag with Stat, then   *)
(* both write with WithIfMatch of the ETag read.                           *)
(*   backend  "fs" (FSStorage) or "s3" (S3Storage)                         *)
(*   wr       per writer: its position, the ETag read, its payload, the    *)
(*            error its Write returned                                     *)
(***************************************************************************)
VARIABLES backend, wr

Writers == {1, 2}
RacePath == "p"

\* S3Storage.Stat: the object's ETag as the service reports it (the MD5 of a
\* single-part upload), quotes trimmed.
S3Stat(fs, p) ==
    IF ~fs.store[p].exists
    THEN [err |-> "NotFound", etag |-> "", data |-> ""]
    ELSE [err |-> "", etag |-> bytesToETag(fs.store[p].data), data |-> ""]

\* S3Storage.Write: PutObject, with If-Match when cfg.etag is not empty; the
\* service compares and writes in one step.
S3Write(fs, p, data, opts) ==
    LET cfg == writeConfig(opts) IN
    IF cfg.etag # "" /\ (~fs.store[p].exists \/ bytesToETag(fs.store[p].data) # cfg.etag)
    THEN [err |-> "PreconditionFailed", fs |-> fs]
    ELSE [err |-> "", fs |-> [fs EXCEPT !.store[p] = Object(data)]]

AllHaveRead == \A w \in Writers : wr[w].pc # "start"

\* stat(p): the writer reads the current ETag.
RaceStat(w) ==
    /\ wr[w].pc = "start"
    /\ LET fi == IF backend = "fs" THEN FSStat(FSHere, RacePath)
                 ELSE S3Stat(FSHere, RacePath)
       IN wr' = [wr EXCEPT ![w].pc = "read", ![w].e = fi.etag]
    /\ UNCHANGED <<store, dirs, backend>>

\* FSStorage.Write up to its ETag comparison.
RaceCheck(w) ==
    /\ backend = "fs"
    /\ AllHaveRead
    /\ wr[w].pc = "read"
    /\ \E d \in Contents :
         LET e == FSWriteCheck(FSHere, RacePath, writeConfig(WithIfMatch(wr[w].e))) IN
         wr' = [wr EXCEPT ![w].pc = IF e = "" THEN "checked" ELSE "done",
                          ![w].data = d, ![w].err = e]
    /\ UNCHANGED <<store, dirs, backend>>

\* FSStorage.Write from os.WriteFile on.
RaceWriteFile(w) ==
    /\ backend = "fs"
    /\ wr[w].pc = "checked"
    /\ LET fs == FSWriteFile(FSHere, RacePath, wr[w].data) IN
       /\ store' = fs.store
       /\ dirs' = fs.dirs
    /\ wr' = [wr EXCEPT ![w].pc = "done"]
    /\ UNCHANGED backend

\* S3Storage.Write.
RaceS3Put(w) ==
    /\ backend = "s3"
    /\ AllHaveRead
    /\ wr[w].pc = "read"
    /\ \E d \in Contents :
         LET r == S3Write(FSHere, RacePath, d, WithIfMatch(wr[w].e)) IN
         /\ store' = r.fs.store
         /\ dirs' = r.fs.dirs
         /\ wr' = [wr EXCEPT ![w].pc = "done", ![w].data = d, ![w].err = r.err]
    /\ UNCHANGED backend

NoWriter == [pc |-> "start", e |-> "", data |-> "", err |-> ""]

RaceIdle ==
    /\ backend = "fs"
    /\ wr = [w \in Writers |-> NoWriter]

\* The object exists, with some content, before the writers start.
RaceInit ==
    /\ \E d \in Contents : store = [p \in Paths |-> IF p = RacePath THEN Object(d) ELSE NoObject]
    /\ dirs = {}
    /\ nops = 0
    /\ fsLast = FSOp("init", "p", "", NoOpt, "", "", NoObject)
    /\ backend \in {"fs", "s3"}
    /\ wr = [w \in Writers |-> NoWriter]

raceVars == <<backend, wr>>

\* What the object store answers to DeleteObject: a key that is absent is
\* reported as deleted, or by some stores as an error naming NotFound.
DeleteAnswers == {"deleted", "NotFound"}
DeleteObject(fs, p, answer) ==
    IF fs.store[p].exists
    THEN [err |-> "", fs |-> [fs EXCEPT !.store[p] = NoObject]]
    ELSE [err |-> IF answer = "NotFound" THEN "NotFound: key" ELSE "", fs |-> fs]

\* strings.Contains(err.Error(), "NotFound")
ContainsNotFound(err) == err = "NotFound: key"

\* S3Storage.Delete: an error that names NotFound is ignored.
S3Delete(fs, p, answer) ==
    LET r == DeleteObject(fs, p, answer) IN
    IF r.err # "" /\ ContainsNotFound(r.err) THEN [err |-> "", fs |-> r.fs] ELSE r

DoDeleteS3 ==
    /\ nops < MaxOps
    /\ \E p \in Paths, answer \in DeleteAnswers :
         LET r == S3Delete(FSHere, p, answer) IN
         /\ store' = r.fs.store
         /\ dirs' = r.fs.dirs
         /\ fsLast' = FSOp("s3delete", p, "", NoOpt, r.err, "", store[p])
    /\ nops' = nops + 1

(***************************************************************************)
(* Concurrent requests.  net/http serves every connection on a goroutine   *)
(* of its own, and handleQuery takes no lock: the steps of two requests    *)
(* interleave at every call into the engine or a log database.             *)
(*   rq   per request: its position in handleQuery, its statement, its     *)
(*        in-memory transaction, its error; n counts its statements        *)
(*        and, while they are in use, the id it allocated and the live set *)
(*        its VACUUM read                                                  *)
(*   session  what the one in-memory session holds between transactions    *)
(***************************************************************************)
VARIABLES rq, session

concVars == <<rq, session>>

Reqs == {1, 2}
\* Statements one request sends in a run of SpecConc.
MaxRounds == 2

ConcStmts == {Stmt("create", t, "a", NoRows) : t \in Tables}
                \cup {Stmt("insert", t, "a", [v \in Values |-> IF v = 1 THEN 1 ELSE 0]) : t \in Tables}
                \cup {Stmt("select", t, "a", NoRows) : t \in Tables}
                \cup {Stmt("vacuum", t, "a", NoRows) : t \in Tables}

NoReq == [pc |-> "idle", stmt |-> NoStmt, tx |-> EmptyTx, err |-> "", n |-> 0,
          id |-> 0, live |-> {}]

\* The working state of request r: the shared state and r's transaction.
CtxOf(r) == [Ctx(logs, db, files, nextId) EXCEPT !.tx = rq[r].tx]

\* Between dataConn.Begin() and the deferred dataTx.Rollback().
InTx(r) == rq[r].pc \in {"begun", "recovered", "merging", "merged", "executed",
                          "logged", "copied", "emitted", "failed"}

Shared(c) ==
    /\ logs' = c.logs
    /\ db' = c.db
    /\ files' = c.files
    /\ nextId' = c.nextId

\* dataConn.Begin() (icebase.go 332): the transaction sees what the session holds.
ReqBegin(r) ==
    /\ rq[r].pc = "idle"
    /\ rq[r].n < MaxRounds
    /\ \E stmt \in ConcStmts :
         rq' = [rq EXCEPT ![r] = [pc |-> "begun", stmt |-> stmt, tx |-> session,
                                  err |-> "", n |-> @.n + 1, id |-> 0, live |-> {}]]
    /\ UNCHANGED <<logs, db, files, nextId, session>>

Step(r, from, to, c) ==
    /\ rq[r].pc = from
    /\ Shared(c)
    /\ rq' = [rq EXCEPT ![r].pc = IF c.err # "" THEN "failed" ELSE to,
                        ![r].tx = c.tx, ![r].err = c.err,
                        ![r].id = IF c.id # 0 THEN c.id ELSE @]
    /\ UNCHANGED session

ReqRecover(r) == Step(r, "begun", "recovered", Recover(CtxOf(r), Parse(rq[r].stmt), "none"))

\* Execution of a statement other than VACUUM (icebase.go 394-400).
ReqExecute(r) ==
    /\ rq[r].stmt.kind # "vacuum"
    /\ Step(r, "recovered", "executed", Execute(CtxOf(r), Parse(rq[r].stmt), rq[r].stmt, "none"))

\* Log.Merge in the steps another request can fall between.
\* The handle, the schema of the table, and the log database opened.
MergeRead(c, t) ==
    LET c1 == getDB(logByName(c, t), t, "none") IN
    IF ~c1.tx[t].exists THEN Fail(c1, "merge: table has no schema") ELSE c1

\* The live set L, read once.
MergeLive(c, t) == LiveIds(c.db[t].insert_log)

\* The view over the files of L, copied to the merged file <u>.parquet.
MergeCopy(c, t, L) ==
    IF \E id \in L : id \notin DOMAIN c.files[t]
    THEN Fail(c, "merge: live file missing")
    ELSE LET u == c.nextId
             content == [cols |-> c.tx[t].cols, rows |-> UnionRows(c.files[t], L)]
         IN [c EXCEPT !.files[t] = (u :> content) @@ @, !.nextId = u + 1, !.id = u]

\* A log transaction that adds the row of the merged file and tombstones nothing.
MergeLog_InsertOnly(c, t, L, u) ==
    [c EXCEPT !.db[t].insert_log =
        Append(@, [id |-> u, tombstoned |-> 0, size |-> ParquetSize(c.files[t][u].rows)])]

\* The one log-DB transaction: the live row of u, and a tombstone on every id of L.
MergeLog(c, t, L, u) ==
    [c EXCEPT !.db[t].insert_log =
        Append([i \in DOMAIN @ |->
                  IF @[i].id \in L THEN [@[i] EXCEPT !.tombstoned = u] ELSE @[i]],
               [id |-> u, tombstoned |-> 0, size |-> ParquetSize(c.files[t][u].rows)])]

\* VACUUM (icebase.go 372-393), one step of Log.Merge at a time.
ReqMergeRead(r) ==
    /\ rq[r].stmt.kind = "vacuum"
    /\ rq[r].pc = "recovered"
    /\ LET c == MergeRead(CtxOf(r), rq[r].stmt.table) IN
       /\ Shared(c)
       /\ rq' = [rq EXCEPT ![r].pc = IF c.err # "" THEN "failed" ELSE "merging",
                           ![r].tx = c.tx, ![r].err = c.err,
                           ![r].live = MergeLive(c, rq[r].stmt.table)]
    /\ UNCHANGED session

ReqMergeCopy(r) ==
    Step(r, "merging", "merged", MergeCopy(CtxOf(r), rq[r].stmt.table, rq[r].live))

ReqMergeLog(r) ==
    Step(r, "merged", "executed", MergeLog(CtxOf(r), rq[r].stmt.table, rq[r].live, rq[r].id))

\* Log emission of a statement other than INSERT (icebase.go 401-415).
ReqEmit(r) ==
    /\ rq[r].stmt.kind # "insert"
    /\ Step(r, "executed", "emitted", Emit(CtxOf(r), Parse(rq[r].stmt), rq[r].stmt, "none"))

\* Log.Insert in the steps another request can fall between.
\* INSERT INTO insert_log ... RETURNING id, on the log database (log.go 137-151).
InsertRow(c, t) ==
    LET c1 == getDB(c, t, "none")
        id == c1.nextId
    IN [c1 EXCEPT !.db[t].insert_log = Append(@, [id |-> id, tombstoned |-> 0, size |-> 0]),
                  !.nextId = id + 1, !.id = id]

\* COPY table TO <id>.parquet (log.go 153-175).
InsertCopy(c, t, id) ==
    [c EXCEPT !.files[t] = (id :> [cols |-> c.tx[t].cols, rows |-> c.tx[t].rows]) @@ @]

\* os.Stat of the file, then UPDATE insert_log SET size (log.go 177-192).
InsertSize(c, t, id) ==
    [c EXCEPT !.db[t].insert_log =
        [i \in DOMAIN @ |->
            IF @[i].id = id
            THEN [@[i] EXCEPT !.size = ParquetSize(c.files[t][id].rows)]
            ELSE @[i]]]

\* Log emission of an INSERT (icebase.go 408-413), one step of Log.Insert at a time.
ReqInsertRow(r) ==
    /\ rq[r].stmt.kind = "insert"
    /\ Step(r, "executed", "logged", InsertRow(CtxOf(r), rq[r].stmt.table))

ReqInsertCopy(r) ==
    Step(r, "logged", "copied", InsertCopy(CtxOf(r), rq[r].stmt.table, rq[r].id))

ReqInsertSize(r) ==
    Step(r, "copied", "emitted", InsertSize(CtxOf(r), rq[r].stmt.table, rq[r].id))

\* A transaction that is committed when its statement succeeded.
Rollback_CommitOnSuccess(sess, tx, err) == IF err = "" THEN tx ELSE sess

\* dataTx.Rollback(): what the session holds once the transaction is
\* resolved is what it held before.
Rollback(sess, tx, err) == sess

\* The deferred dataTx.Rollback() (icebase.go 338-342).
ReqRollback(r) ==
    /\ rq[r].pc \in {"emitted", "failed"}
    /\ session' = Rollback(session, rq[r].tx, rq[r].err)
    /\ rq' = [rq EXCEPT ![r].pc = "idle", ![r].tx = EmptyTx, ![r].id = 0, ![r].live = {}]
    /\ UNCHANGED <<logs, db, files, nextId>>

ConcIdle == rq = [r \in Reqs |-> NoReq] /\ session = EmptyTx

(***************************************************************************)
(* Request bodies.  A body is a sequence of tokens: a statement, ';', a    *)
(* line break, a blank, a quote, or the '--' that opens a comment up to    *)
(* the end of its line.  handleQuery with query splitting enabled cuts    *)
(* the body with SplitNonEmptyQueries and handles the queries one after    *)
(* the other.                                                              *)
(*   batch  what the last POST /query did (a history variable)             *)
(*   nbody  bodies handled so far                                          *)
(***************************************************************************)
VARIABLES batch, nbody

batchVars == <<batch, nbody>>

\* Bodies one run of SpecBatch handles.
MaxBodies == 2

Sql(stmt) == [tok |-> "sql", stmt |-> stmt]
Semi == [tok |-> ";", stmt |-> NoStmt]
NL == [tok |-> "nl", stmt |-> NoStmt]
Blank == [tok |-> " ", stmt |-> NoStmt]
Comment == [tok |-> "--", stmt |-> NoStmt]
Quote == [tok |-> "'", stmt |-> NoStmt]

\* strings.Split(body, ";"): the pieces between the semicolons.
RECURSIVE SplitSemi(_, _)
SplitSemi(body, piece) ==
    IF body = << >> THEN <<piece>>
    ELSE IF Head(body).tok = ";" THEN <<piece>> \o SplitSemi(Tail(body), << >>)
    ELSE SplitSemi(Tail(body), Append(piece, Head(body)))

IsSpace(x) == x.tok \in {"nl", " "}

RECURSIVE TrimLeft(_)
TrimLeft(s) == IF s # << >> /\ IsSpace(Head(s)) THEN TrimLeft(Tail(s)) ELSE s

RECURSIVE TrimRight(_)
TrimRight(s) ==
    IF s # << >> /\ IsSpace(s[Len(s)]) THEN TrimRight(SubSeq(s, 1, Len(s) - 1)) ELSE s

\* strings.TrimSpace
TrimSpace(s) == TrimRight(TrimLeft(s))

\* strings.SplitN(s, "\n", 2): the first line, and the rest if there is one.
RECURSIVE FirstLine(_)
FirstLine(s) ==
    IF s = << >> \/ Head(s).tok = "nl" THEN << >> ELSE <<Head(s)>> \o FirstLine(Tail(s))

HasMoreLines(s) == \E i \in DOMAIN s : s[i].tok = "nl"
AfterFirstLine(s) == SubSeq(s, Len(FirstLine(s)) + 2, Len(s))

\* separateComments: a piece that begins with a comment gives up its first
\* line as a query of its own, and the rest is looked at again.
RECURSIVE separateComments(_)
separateComments(s) ==
    LET trimmed == TrimSpace(s) IN
    IF trimmed = << >> THEN << >>
    ELSE IF Head(trimmed).tok # "--" THEN <<trimmed>>
    ELSE <<FirstLine(trimmed)>> \o
         (IF HasMoreLines(trimmed) THEN separateComments(AfterFirstLine(trimmed)) ELSE << >>)

RECURSIVE SeparateAll(_)
SeparateAll(pieces) ==
    IF pieces = << >> THEN << >>
    ELSE separateComments(Head(pieces)) \o SeparateAll(Tail(pieces))

SplitNonEmptyQueries(body) == SeparateAll(SplitSemi(body, << >>))

\* How SQL reads a text, token by token: in a statement ("sql"), in a '--'
\* comment up to the end of its line, or in a string literal up to its closing
\* quote.
NextMode(mode, x) ==
    CASE mode = "--" -> IF x.tok = "nl" THEN "sql" ELSE "--"
      [] mode = "'"  -> IF x.tok = "'" THEN "sql" ELSE "'"
      [] OTHER       -> IF x.tok \in {"--", "'"} THEN x.tok ELSE "sql"

RECURSIVE EndMode(_, _)
EndMode(q, mode) == IF q = << >> THEN mode ELSE EndMode(Tail(q), NextMode(mode, Head(q)))

\* The statement the engine finds in a query text: a comment hides the rest
\* of its line; no statement at all is the driver's "empty query"; two
\* statements with no ';' between them do not parse, and neither does a
\* string literal that is not closed.
RECURSIVE SqlOf(_, _)
SqlOf(q, mode) ==
    IF q = << >> THEN << >>
    ELSE LET x == Head(q) IN
         IF x.tok = "sql" /\ mode = "sql" THEN <<x.stmt>> \o SqlOf(Tail(q), mode)
         ELSE SqlOf(Tail(q), NextMode(mode, x))

StatementOf(q) ==
    LET ss == SqlOf(q, "sql") IN
    IF EndMode(q, "sql") = "'" THEN Stmt("invalid", "", "a", NoRows)
    ELSE IF ss = << >> THEN Stmt("comment", "", "a", NoRows)
    ELSE IF Len(ss) = 1 THEN ss[1]
    ELSE Stmt("invalid", "", "a", NoRows)

\* var response *QueryResponse: nil until a statement has succeeded.
NilResponse == [ptr |-> FALSE, r |-> NoResp]
Response(r) == [ptr |-> TRUE, r |-> r]

\* The text handleQuery returns: "" with an error, else json.Marshal(response):
\* null for a nil pointer, else an object in which a nil Data slice is null
\* and an empty one is [].
NoJSON == [kind |-> "none", meta |-> "", dataNull |-> TRUE, data |-> NoRows, rows |-> 0]
JSONNull == [NoJSON EXCEPT !.kind = "null"]
Marshal(response) ==
    IF ~response.ptr THEN JSONNull
    ELSE [kind |-> "object", meta |-> response.r.meta, dataNull |-> response.r.isNil,
          data |-> response.r.data, rows |-> BagSize(response.r.data)]

\* The loop of handleQuery over the queries: each in a transaction of its
\* own, the first error ends the request.  n counts the queries started.
RECURSIVE RunQueries(_, _, _, _)
RunQueries(c, queries, response, n) ==
    IF queries = << >> THEN [c |-> c, err |-> "", response |-> response, n |-> n]
    ELSE CHOOSE res \in
            {IF c1.err # ""
             THEN [c |-> c1, err |-> c1.err, response |-> response, n |-> n + 1]
             ELSE RunQueries(c1, Tail(queries), Response(c1.resp), n + 1) :
                c1 \in {handleStatement(Ctx(c.logs, c.db, c.files, c.nextId),
                                        StatementOf(Head(queries)), "none")}} : TRUE

\* RunQueries that goes on with the next query after a failed one.
handleQuery_KeepGoing(c, body) ==
    LET qs == SplitNonEmptyQueries(body)
        F[i \in 0..Len(qs)] ==
            IF i = 0 THEN [c |-> c, err |-> "", response |-> NilResponse, n |-> 0]
            ELSE LET c1 == handleStatement(Ctx(F[i-1].c.logs, F[i-1].c.db, F[i-1].c.files,
                                               F[i-1].c.nextId),
                                           StatementOf(qs[i]), "none") IN
                 [c |-> c1,
                  err |-> IF F[i-1].err # "" THEN F[i-1].err ELSE c1.err,
                  response |-> IF c1.err # "" THEN F[i-1].response ELSE Response(c1.resp),
                  n |-> i]
        r == F[Len(qs)]
    IN [c |-> r.c, err |-> r.err, n |-> r.n,
        out |-> IF r.err # "" THEN NoJSON ELSE Marshal(r.response)]

\* IceBase.handleQuery on a whole body: the error, or the JSON of the response.
handleQuery(c, body) ==
    CHOOSE res \in {[c |-> r.c, err |-> r.err, n |-> r.n,
                     out |-> IF r.err # "" THEN NoJSON ELSE Marshal(r.response)] :
                        r \in {RunQueries(c, filteredQueries, NilResponse, 0) :
                                  filteredQueries \in {SplitNonEmptyQueries(body)}}} : TRUE

(***************************************************************************)
(* Destroy.  Log.Destroy is called by IceBase.Destroy for every handle in  *)
(* ib.logs: it closes the log database and deletes everything under        *)
(* <root>/<table>/.  A table without a handle is not touched.              *)
(***************************************************************************)
RECURSIVE DestroyLogs(_, _, _)
DestroyLogs(c, ts, fail) ==
    IF ts = {} THEN c
    ELSE LET t == CHOOSE x \in ts : TRUE IN
         IF fail = "destroy" THEN Fail(c, "failed to destroy log for table")
         ELSE DestroyLogs([c EXCEPT !.logs[t] = "none", !.db[t] = NoDB, !.files[t] = NoFiles],
                          ts \ {t}, fail)

\* Destroy that forgets the handles and leaves the files where they are.
Destroy_KeepFiles(c, fail) == [c EXCEPT !.logs = [t \in Tables |-> "none"]]

\* IceBase.Destroy: every handle destroyed and dropped, then ResetMemoryDB.
Destroy(c, fail) ==
    LET c1 == DestroyLogs(c, {t \in Tables : c.logs[t] # "none"}, fail) IN
    IF c1.err # "" THEN c1
    ELSE IF fail = "reset" THEN Fail(c1, "failed to reset memory database")
    ELSE c1

(***************************************************************************)
(* The bodies sent to /query, and the two operations of SpecBatch.         *)
(***************************************************************************)
BatchStmts ==
    {Stmt("create", "t1", "a", NoRows),
     Stmt("insert", "t1", "a", [v \in Values |-> IF v = 1 THEN 1 ELSE 0]),
     Stmt("select", "t1", "a", NoRows),
     Stmt("select_const", "", "a", NoRows)}

\* One statement: bare, with a closing ';', with a comment before or after
\* it, on its line or on a line of its own, after a ';' or not, or ending in
\* a string literal that holds a ';'.
OneStmtBodies ==
    UNION {{ <<Sql(x)>>,
             <<Sql(x), Semi>>,
             <<Sql(x), Semi, NL, Comment, NL>>,
             <<Sql(x), Blank, Comment>>,
             <<Comment, NL, Sql(x), Semi>>,
             <<Comment, Semi, Blank, Sql(x)>>,
             <<Sql(x), Quote, Semi, Quote>> } : x \in BatchStmts}

TwoStmtBodies == {<<Sql(x), Semi, NL, Sql(y)>> : x, y \in BatchStmts}

ThreeStmtBodies ==
    {<<Sql(Stmt("create", "t1", "a", NoRows)), Semi, Sql(x), Semi, Sql(y), Semi>> :
        x, y \in BatchStmts \ {Stmt("select_const", "", "a", NoRows)}}

Bodies == {<< >>, <<Blank, Semi, NL>>} \cup OneStmtBodies \cup TwoStmtBodies \cup ThreeStmtBodies

NoBatch == [kind |-> "init", body |-> << >>, err |-> "", n |-> 0, out |-> NoJSON]

\* POST /query handled to the end.
PostQuery ==
    /\ nbody < MaxBodies
    /\ \E body \in Bodies : \E r \in {handleQuery(Here, body)} :
         /\ logs' = r.c.logs
         /\ db' = r.c.db
         /\ files' = r.c.files
         /\ nextId' = r.c.nextId
         /\ batch' = [kind |-> "body", body |-> body, err |-> r.err, n |-> r.n, out |-> r.out]
    /\ nbody' = nbody + 1
    /\ UNCHANGED <<nstmt, last>>

\* IceBase.Destroy called between requests.
CallDestroy ==
    /\ nbody < MaxBodies
    /\ \E fail \in {"none", "destroy", "reset"} : \E c \in {Destroy(Here, fail)} :
         /\ logs' = c.logs
         /\ db' = c.db
         /\ files' = c.files
         /\ nextId' = c.nextId
         /\ batch' = [NoBatch EXCEPT !.kind = "destroy", !.err = c.err]
    /\ nbody' = nbody + 1
    /\ UNCHANGED <<nstmt, last>>

BatchIdle == batch = NoBatch /\ nbody = 0

(***************************************************************************)
(* The rows of a response, cell by cell.  ExecuteQuery turns the result    *)
(* set of the engine (columns with their type names, rows of scanned       *)
(* values) into meta, data and rows.                                       *)
(*   enc  the result set last encoded and the response made of it          *)
(***************************************************************************)
VARIABLES enc

\* Columns and rows of the result sets of SpecRows.
MaxCols == 2
MaxRows == 2

ColTypes == {"INTEGER", "UUID"}
\* Scanned values: nil, an integer, a byte slice.
NullValue == [k |-> "nil", v |-> ""]
CellValues == {NullValue, [k |-> "int", v |-> "7"], [k |-> "bytes", v |-> "0192"]}

SeqsUpTo(S, n) == UNION {[1..k -> S] : k \in 0..n}

\* fmt.Sprintf("%v", v) for every value, nil included.
CellString_Sprintf(type, x) ==
    CASE x.k = "nil" -> "<nil>"
      [] x.k = "int" -> x.v
      [] x.k = "bytes" -> "[" \o x.v \o "]"

\* One cell of rowData: "NULL" for nil, the canonical string for the bytes
\* of a UUID column, fmt.Sprintf("%v", v) otherwise.
CellString(type, x) ==
    IF x.k = "nil" THEN "NULL"
    ELSE IF type = "UUID" /\ x.k = "bytes" THEN "uuid-" \o x.v
    ELSE CellString_Sprintf(type, x)

\* The scan loop of ExecuteQuery and the lines after it.
ScanRows(result) ==
    LET data == [r \in 1..Len(result.rows) |->
                    [i \in 1..Len(result.columns) |->
                        CellString(result.columns[i], result.rows[r][i])]]
    IN [meta |-> result.columns, data |-> data, dataNil |-> data = << >>, rows |-> Len(data)]

NoEnc == [kind |-> "init", in |-> [columns |-> << >>, rows |-> << >>], out |-> ScanRows([columns |-> << >>, rows |-> << >>])]

Encode ==
    /\ enc.kind = "init"
    /\ \E cols \in SeqsUpTo(ColTypes, MaxCols) : \E k \in 0..MaxRows :
          \E rs \in [1..k -> [1..Len(cols) -> CellValues]] :
             \E result \in {[columns |-> cols, rows |-> rs]} :
                enc' = [kind |-> "done", in |-> result, out |-> ScanRows(result)]

EncIdle == enc = NoEnc

(***************************************************************************)
(* The HTTP handler (IceBase.RequestHandler) in front of PostEndpoint.     *)
(*   authToken  BEARER_TOKEN as NewIceBase read it                         *)
(*   http       the last request and the reply the client got              *)
(*   nreq       requests served so far                                     *)
(***************************************************************************)
VARIABLES authToken, http, nreq

httpVars == <<authToken, http, nreq>>

\* Requests one run of SpecHTTP serves.
MaxRequests == 3

Tokens == {"", "secret"}
Methods == {"POST", "OPTIONS", "GET"}
AuthHeaders == {"", "Bearer secret", "Bearer other"}
Endpoints == {"/query", "/parse", "/nope"}
HTTPBodies ==
    {<<Sql(Stmt("create", "t1", "a", NoRows))>>,
     <<Sql(Stmt("insert", "t1", "a", [v \in Values |-> IF v = 1 THEN 1 ELSE 0])), Semi>>,
     <<Sql(Stmt("select", "t1", "a", NoRows))>>}
\* What can go wrong around the handling: reading the body, writing the reply.
HTTPFails == {"none", "read", "write"}

Request(m, a, p, b, f) == [method |-> m, auth |-> a, path |-> p, body |-> b, fail |-> f]
Requests == {Request(m, a, p, b, f) : m \in Methods, a \in AuthHeaders, p \in Endpoints, b \in HTTPBodies, f \in HTTPFails}

\* A reply: the status, the plain text of http.Error, the JSON written.
Reply(c, status, text, out) == [c |-> c, status |-> status, text |-> text, out |-> out]

\* handleParse: the operation and the table of the body, as JSON.
handleParse(c, body) ==
    LET p == Parse(StatementOf(body))
    IN [c |-> c, err |-> "", out |-> [NoJSON EXCEPT !.kind = "parse", !.meta = p.op \o ":" \o p.table]]

\* An unknown endpoint answered like /parse.
PostEndpoint_ParseAll(c, endpoint, body) ==
    IF endpoint = "/query"
    THEN CHOOSE res \in {[c |-> r.c, err |-> r.err, out |-> r.out] : r \in {handleQuery(c, body)}} : TRUE
    ELSE handleParse(c, body)

PostEndpoint(c, endpoint, body) ==
    CASE endpoint = "/query" ->
            CHOOSE res \in {[c |-> r.c, err |-> r.err, out |-> r.out] : r \in {handleQuery(c, body)}} : TRUE
      [] endpoint = "/parse" -> handleParse(c, body)
      [] OTHER -> [c |-> c, err |-> "unknown endpoint: " \o endpoint, out |-> NoJSON]

\* RequestHandler after the auth check: preflight, method, body, endpoint.
Serve(c, req) ==
    IF req.method = "OPTIONS" THEN Reply(c, 200, "", NoJSON)
    ELSE IF req.method # "POST" THEN Reply(c, 405, "Method not allowed", NoJSON)
    ELSE IF req.fail = "read" THEN Reply(c, 400, "failed to read request body", NoJSON)
    ELSE CHOOSE res \in
            {IF r.err # "" THEN Reply(r.c, 400, r.err, NoJSON)
             ELSE IF req.fail = "write" THEN Reply(r.c, 500, "Internal server error", NoJSON)
             ELSE Reply(r.c, 200, "", r.out) :
                r \in {PostEndpoint(c, req.path, req.body)}} : TRUE

\* The handler without the auth check.
RequestHandler_NoAuth(c, token, req) == Serve(c, req)

RequestHandler(c, token, req) ==
    IF token # "" /\ req.auth # "Bearer " \o token
    THEN Reply(c, 401, "Unauthorized", NoJSON)
    ELSE Serve(c, req)

NoHTTP == [kind |-> "init", req |-> Request("", "", "", << >>, "none"), status |-> 0, text |-> "", out |-> NoJSON]

\* One request handled to the end.
ServeHTTP ==
    /\ nreq < MaxRequests
    /\ \E req \in Requests : \E r \in {RequestHandler(Here, authToken, req)} :
         /\ logs' = r.c.logs
         /\ db' = r.c.db
         /\ files' = r.c.files
         /\ nextId' = r.c.nextId
         /\ http' = [kind |-> "reply", req |-> req, status |-> r.status, text |-> r.text, out |-> r.out]
    /\ nreq' = nreq + 1
    /\ UNCHANGED <<authToken, nstmt, last>>

\* NewIceBase reads BEARER_TOKEN from the environment.
HTTPInit == authToken \in Tokens /\ http = NoHTTP /\ nreq = 0
HTTPIdle == authToken = "" /\ http = NoHTTP /\ nreq = 0

(***************************************************************************)
(* The map of Log handles (IceBase.logs) under concurrent requests.        *)
(* logByName looks the table up and, when it is missing, makes a handle    *)
(* and stores it; nothing makes the two steps one.                         *)
(*   hmap     ib.logs: table -> the handle stored for it (0: no entry)     *)
(*   hreq     per request: where it is in logByName and the handle it got  *)
(*   nextLog  the next handle NewLog makes                                 *)
(*   fatal    the runtime stopped the process on a concurrent map access   *)
(***************************************************************************)
VARIABLES hmap, hreq, nextLog, fatal

handleVars == <<hmap, hreq, nextLog, fatal>>

Callers == {1, 2, 3}
\* Calls of logByName one request makes in a run of SpecHandles.
MaxCalls == 1

NoCall == [pc |-> "idle", table |-> "", log |-> 0, n |-> 0]

\* if log, exists := ib.logs[tableName]; exists { return log, nil }
Lookup(m, t, next) ==
    IF m[t] # 0 THEN [pc |-> "return", log |-> m[t], map |-> m, next |-> next]
    ELSE [pc |-> "missing", log |-> 0, map |-> m, next |-> next]

\* log := NewLog(...); ib.logs[tableName] = log; return log, nil
Store(m, t, next) ==
    [pc |-> "return", log |-> next, map |-> [m EXCEPT ![t] = next], next |-> next + 1]

CallLookup(r) ==
    /\ ~fatal
    /\ hreq[r].pc = "idle"
    /\ hreq[r].n < MaxCalls
    /\ \E t \in Tables : \E x \in {Lookup(hmap, t, nextLog)} :
         /\ hreq' = [hreq EXCEPT ![r] = [pc |-> x.pc, table |-> t, log |-> x.log, n |-> @.n + 1]]
         /\ hmap' = x.map
         /\ nextLog' = x.next
    /\ UNCHANGED fatal

CallStore(r) ==
    /\ ~fatal
    /\ hreq[r].pc = "missing"
    /\ \E x \in {Store(hmap, hreq[r].table, nextLog)} :
         /\ hreq' = [hreq EXCEPT ![r].pc = x.pc, ![r].log = x.log]
         /\ hmap' = x.map
         /\ nextLog' = x.next
    /\ UNCHANGED fatal

\* The statement is over; the caller lets go of its handle.
CallReturn(r) ==
    /\ ~fatal
    /\ hreq[r].pc = "return"
    /\ hreq' = [hreq EXCEPT ![r].pc = "idle"]
    /\ UNCHANGED <<hmap, nextLog, fatal>>

\* Two goroutines about to write the map: the runtime may detect it and
\* end the process ("concurrent map writes").
MapFault ==
    /\ ~fatal
    /\ \E r1, r2 \in Callers : r1 # r2 /\ hreq[r1].pc = "missing" /\ hreq[r2].pc = "missing"
    /\ fatal' = TRUE
    /\ UNCHANGED <<hmap, hreq, nextLog>>

HandlesIdle ==
    /\ hmap = [t \in Tables |-> 0]
    /\ hreq = [r \in Callers |-> NoCall]
    /\ nextLog = 1
    /\ fatal = FALSE

(***************************************************************************)
(* The specifications.                                                     *)
(***************************************************************************)
\* The variables of the specifications added after the first four.
restVars == <<batch, nbody, enc, authToken, http, nreq, handleVars>>

vars == <<logs, db, files, nextId, nstmt, last, store, dirs, nops, fsLast,
          backend, wr, rq, session, batch, nbody, enc, authToken, http, nreq,
          hmap, hreq, nextLog, fatal>>

\* Spec: statements one at a time, and restarts.
RestIdle == BatchIdle /\ EncIdle /\ HTTPIdle /\ HandlesIdle

Init == EngineInit /\ FSInit /\ RaceIdle /\ ConcIdle /\ RestIdle

Next ==
    \/ HandleQuery /\ UNCHANGED <<fsVars, raceVars, concVars, restVars>>
    \/ Restart /\ UNCHANGED <<fsVars, raceVars, concVars, restVars>>

Spec == Init /\ [][Next]_vars

\* SpecFS: one client of the filesystem backend.
NextFS ==
    \/ DoWrite /\ UNCHANGED <<engineVars, raceVars, concVars, restVars>>
    \/ DoStat /\ UNCHANGED <<engineVars, raceVars, concVars, restVars>>
    \/ DoRead /\ UNCHANGED <<engineVars, raceVars, concVars, restVars>>
    \/ DoDelete /\ UNCHANGED <<engineVars, raceVars, concVars, restVars>>
    \/ DoDeleteS3 /\ UNCHANGED <<engineVars, raceVars, concVars, restVars>>

SpecFS == Init /\ [][NextFS]_vars

\* SpecRace: two writers, one object, either backend.
InitRace == EngineInit /\ RaceInit /\ ConcIdle /\ RestIdle

NextRace ==
    \E w \in Writers :
        \/ RaceStat(w) /\ UNCHANGED <<engineVars, nops, fsLast, concVars, restVars>>
        \/ RaceCheck(w) /\ UNCHANGED <<engineVars, nops, fsLast, concVars, restVars>>
        \/ RaceWriteFile(w) /\ UNCHANGED <<engineVars, nops, fsLast, concVars, restVars>>
        \/ RaceS3Put(w) /\ UNCHANGED <<engineVars, nops, fsLast, concVars, restVars>>

SpecRace == InitRace /\ [][NextRace]_vars

\* SpecConc: two requests at once.
NextConc ==
    \E r \in Reqs :
        \/ ReqBegin(r) /\ UNCHANGED <<nstmt, last, fsVars, raceVars, restVars>>
        \/ ReqRecover(r) /\ UNCHANGED <<nstmt, last, fsVars, raceVars, restVars>>
        \/ ReqExecute(r) /\ UNCHANGED <<nstmt, last, fsVars, raceVars, restVars>>
        \/ ReqMergeRead(r) /\ UNCHANGED <<nstmt, last, fsVars, raceVars, restVars>>
        \/ ReqMergeCopy(r) /\ UNCHANGED <<nstmt, last, fsVars, raceVars, restVars>>
        \/ ReqMergeLog(r) /\ UNCHANGED <<nstmt, last, fsVars, raceVars, restVars>>
        \/ ReqEmit(r) /\ UNCHANGED <<nstmt, last, fsVars, raceVars, restVars>>
        \/ ReqInsertRow(r) /\ UNCHANGED <<nstmt, last, fsVars, raceVars, restVars>>
        \/ ReqInsertCopy(r) /\ UNCHANGED <<nstmt, last, fsVars, raceVars, restVars>>
        \/ ReqInsertSize(r) /\ UNCHANGED <<nstmt, last, fsVars, raceVars, restVars>>
        \/ ReqRollback(r) /\ UNCHANGED <<nstmt, last, fsVars, raceVars, restVars>>

SpecConc == Init /\ [][NextConc]_vars

\* SpecBatch: whole /query bodies one after the other, and Destroy.
NextBatch ==
    \/ PostQuery /\ UNCHANGED <<fsVars, raceVars, concVars, enc, httpVars, handleVars>>
    \/ CallDestroy /\ UNCHANGED <<fsVars, raceVars, concVars, enc, httpVars, handleVars>>

SpecBatch == Init /\ [][NextBatch]_vars

\* SpecRows: one result set encoded.
NextRows == Encode /\ UNCHANGED <<engineVars, fsVars, raceVars, concVars, batchVars, httpVars, handleVars>>

SpecRows == Init /\ [][NextRows]_vars

\* SpecHTTP: requests through RequestHandler, with or without a token.
InitHTTP == EngineInit /\ FSInit /\ RaceIdle /\ ConcIdle /\ BatchIdle /\ EncIdle /\ HandlesIdle /\ HTTPInit

NextHTTP == ServeHTTP /\ UNCHANGED <<fsVars, raceVars, concVars, batchVars, enc, handleVars>>

SpecHTTP == InitHTTP /\ [][NextHTTP]_vars

\* SpecHandles: concurrent calls of logByName.
otherVars == <<engineVars, fsVars, raceVars, concVars, batchVars, enc, httpVars>>

NextHandles ==
    \/ \E r \in Callers :
          \/ CallLookup(r) /\ UNCHANGED otherVars
          \/ CallStore(r) /\ UNCHANGED otherVars
          \/ CallReturn(r) /\ UNCHANGED otherVars
    \/ MapFault /\ UNCHANGED otherVars

SpecHandles == Init /\ [][NextHandles]_vars

(***************************************************************************)
(* What a statement would return in the current state.                     *)
(***************************************************************************)
\* The outcome of SELECT * FROM t sent as the next request.
SelectAt(h, t) ==
    LET c == handleStatement(h, Stmt("select", t, "a", NoRows), "none") IN
    [err |-> c.err, resp |-> IF c.err # "" THEN NoResp ELSE c.resp]

\* The outcome of a SELECT on t run now, and run after the step being taken.
SelectOutcome(t) == SelectAt(Here, t)
SelectOutcomeNext(t) == SelectAt(Ctx(logs', db', files', nextId'), t)

SelectCount(o) == BagSize(o.resp.data)

\* The rows persisted for t: those of the live files that exist.
LiveRows(t) == UnionRows(files[t], LiveIds(db[t].insert_log) \cap DOMAIN files[t])

StmtDone(k) == last.kind = "stmt" /\ last.stmt.kind = k
StmtOk(k) == StmtDone(k) /\ last.err = ""

(***************************************************************************)
(* Claims about the engine (specification Spec).                           *)
(***************************************************************************)
\* C1: after a successful INSERT of k rows into T, SELECT COUNT(*) FROM T
\* returns the count it would have returned just before the insert, plus k.
C1_InsertAddsToCount ==
    [][\A t \in Tables :
          (StmtOk("insert")' /\ last'.stmt.table = t) =>
              SelectCount(SelectOutcomeNext(t)) =
                  SelectCount(SelectOutcome(t)) + BagSize(last'.stmt.rows)]_vars

\* C2: a process restart (handles and session discarded, log.db and data
\* files kept) does not change what a SELECT on the table returns.
C2_RestartKeepsSelect ==
    [][last'.kind = "restart" =>
          \A t \in Tables : SelectOutcomeNext(t) = SelectOutcome(t)]_vars

\* C2 witness: a restart after a CREATE TABLE and an INSERT that stored rows.
C2_Witness ==
    /\ last.kind = "restart"
    /\ \E t \in Tables :
          /\ db[t].schema_log # << >>
          /\ BagSize(LiveRows(t)) > 0
          /\ SelectOutcome(t).err = ""

C4_LiveSetSound ==
    \A t \in Tables : LiveIds(db[t].insert_log) \subseteq DOMAIN files[t]

\* C5: after Log.Insert failed at the COPY, stat or size-update step, the
\* insert_log holds no row for the id it allocated.
C5_NoRowAfterFailedInsert ==
    (StmtDone("insert") /\ last.err \in {"failed to copy to parquet",
                                         "failed to get parquet file size",
                                         "failed to update insert_log size"})
        => last.id \notin AllIds(db[last.stmt.table].insert_log)

\* C6: replaying a table's schema_log, in timestamp order, against an empty
\* session succeeds, whatever statements ran before.
C6_SchemaLogReplays ==
    \A t \in Tables : ReplayAll(db[t].schema_log, EmptyTx).err = ""

\* C6 witness: a repeated CREATE TABLE was refused while schema_log holds
\* more than one statement.
C6_Witness ==
    /\ StmtDone("create")
    /\ last.err = "query error"
    /\ Len(db[last.stmt.table].schema_log) > 1

\* C7: a SELECT on a created table succeeds and sees exactly the rows of the
\* live parquet files (zero rows when the live set is empty).
C7_SelectSeesLiveFiles ==
    \A t \in Tables :
        db[t].schema_log # << >> =>
            /\ SelectOutcome(t).err = ""
            /\ SelectOutcome(t).resp.data = LiveRows(t)

(***************************************************************************)
(* Claims about the storage backends (SpecFS, SpecRace).                   *)
(***************************************************************************)
CondWrite == fsLast.op = "write" /\ fsLast.opts.given /\ fsLast.before.exists
CurrentETag == bytesToETag(fsLast.before.data)

C9_ExactlyOneWins ==
    ((\A w \in Writers : wr[w].pc = "done") /\ wr[1].e = wr[2].e)
        => Cardinality({w \in Writers : wr[w].err = ""}) = 1

(***************************************************************************)
(* Claims about concurrent requests (SpecConc).                            *)
(***************************************************************************)
\* C10: at most one statement at a time is between opening its in-memory
\* transaction and resolving it.
C10_MutualExclusion == Cardinality({r \in Reqs : InTx(r)}) <= 1

(***************************************************************************)
(* Claims about whole request bodies and Destroy (SpecBatch).              *)
(***************************************************************************)
\* The working state after the first k queries of qs were handled one by
\* one, each in a transaction of its own, starting from c.
RECURSIVE AfterQueries(_, _, _)
AfterQueries(c, qs, k) ==
    IF k = 0 THEN c
    ELSE CHOOSE res \in
            {handleStatement(Ctx(prev.logs, prev.db, prev.files, prev.nextId),
                             StatementOf(qs[k]), "none") :
                prev \in {AfterQueries(c, qs, k - 1)}} : TRUE

IsPrefix(a, b) == Len(a) <= Len(b) /\ SubSeq(b, 1, Len(a)) = a

\* C11: when statement i of a body is the first to fail, the request returns
\* that error and no response text, statement i is the last one handled, and
\* the schema_log rows, insert_log rows and data files that statements
\* 1..i-1 wrote are all still there.
C11_BatchStopsAtFirstError ==
    [][(batch'.kind = "body" /\ batch'.err # "") =>
          \E qs \in {SplitNonEmptyQueries(batch'.body)} :
          \E i \in 1..Len(qs) :
          \E before \in {AfterQueries(Here, qs, i - 1)} :
          \E failed \in {AfterQueries(Here, qs, i)} :
             /\ before.err = ""
             /\ failed.err = batch'.err
             /\ batch'.n = i
             /\ batch'.out = NoJSON
             /\ <<logs', db', files', nextId'>> =
                    <<failed.logs, failed.db, failed.files, failed.nextId>>
             /\ \A t \in Tables :
                   /\ IsPrefix(before.db[t].schema_log, db'[t].schema_log)
                   /\ IsPrefix(before.db[t].insert_log, db'[t].insert_log)
                   /\ \A id \in DOMAIN before.files[t] :
                         id \in DOMAIN files'[t] /\ files'[t][id] = before.files[t][id]]_vars

\* C11 witness: the third statement of a body failed after the first two had
\* written a schema_log row, an insert_log row and a data file.
C11_Witness ==
    /\ batch.kind = "body"
    /\ batch.err # ""
    /\ batch.n = 3
    /\ \E t \in Tables :
          /\ db[t].schema_log # << >>
          /\ db[t].insert_log # << >>
          /\ DOMAIN files[t] # {}

\* The SQL statements of a body as SQL reads it: cut at the ';' that are not
\* inside a comment or a string literal, pieces without a statement dropped.
RECURSIVE SqlPieces(_, _, _)
SqlPieces(body, piece, mode) ==
    IF body = << >> THEN <<piece>>
    ELSE LET x == Head(body) IN
         IF x.tok = ";" /\ mode = "sql" THEN <<piece>> \o SqlPieces(Tail(body), << >>, "sql")
         ELSE SqlPieces(Tail(body), Append(piece, x), NextMode(mode, x))

HasStatement(piece) == StatementOf(piece).kind # "comment"
SqlStatements(body) == SelectSeq(SqlPieces(body, << >>, "sql"), HasStatement)

\* C12: when every statement of a body succeeds, the JSON returned is the
\* response of the last SQL statement of the body, whether or not a ';' or a
\* '--' comment follows it.
C12_ResponseOfLastStatement ==
    [][(batch'.kind = "body" /\ batch'.err = "") =>
          \A ss \in {SqlStatements(batch'.body)} :
             ss # << >> =>
                \A c \in {AfterQueries(Here, ss, Len(ss))} :
                   batch'.out = Marshal(Response(c.resp))]_vars

\* C13: the response to a successful body with at least one statement is a
\* JSON object whose data field is an array, never null: [] when the last
\* statement returned no rows.
C13_DataNeverNull ==
    (batch.kind = "body" /\ batch.err = "" /\ batch.n >= 1) =>
        /\ batch.out.kind = "object"
        /\ ~batch.out.dataNull

(***************************************************************************)
(* Claims about the encoding of rows (SpecRows).                           *)
(***************************************************************************)
\* C14: in a response, rows is the number of entries of data, every entry
\* has one cell per column of meta, and the cell of a NULL value is the
\* string "NULL".
C14_RowsAndCells ==
    enc.kind = "done" =>
        /\ enc.out.rows = Len(enc.out.data)
        /\ \A r \in DOMAIN enc.out.data :
              /\ Len(enc.out.data[r]) = Len(enc.out.meta)
              /\ \A i \in DOMAIN enc.in.rows[r] :
                    enc.in.rows[r][i] = NullValue => enc.out.data[r][i] = "NULL"

\* C14 witness: two rows of two columns, with a NULL in the second row.
C14_Witness ==
    /\ enc.kind = "done"
    /\ enc.out.rows = 2
    /\ Len(enc.out.meta) = 2
    /\ enc.in.rows[2][1] = NullValue
    /\ enc.out.data[2][1] = "NULL"

(***************************************************************************)
(* Claims about the HTTP handler (SpecHTTP).                               *)
(***************************************************************************)
Durable == <<logs, db, files, nextId>>
AuthOk(req) == authToken = "" \/ req.auth = "Bearer " \o authToken

\* C15: with a token configured, a request whose Authorization header is
\* not "Bearer <token>" gets 401 and changes nothing; a request with the
\* right header gets the reply of the handler behind the auth check.
C15_BearerToken ==
    [][(authToken # "" /\ http'.kind = "reply") =>
         /\ http'.req.auth # "Bearer " \o authToken =>
               /\ http'.status = 401
               /\ UNCHANGED Durable
         /\ http'.req.auth = "Bearer " \o authToken =>
               \E r \in {Serve(Here, http'.req)} :
                  /\ http'.status = r.status /\ http'.text = r.text /\ http'.out = r.out
                  /\ http'.status # 401
                  /\ <<logs', db', files', nextId'>> = <<r.c.logs, r.c.db, r.c.files, r.c.nextId>>]_vars

\* C15 witness: behind a token, a refused INSERT after an accepted one.
C15_Witness ==
    /\ authToken # ""
    /\ http.kind = "reply"
    /\ http.status = 401
    /\ http.req.method = "POST" /\ http.req.path = "/query"
    /\ \E t \in Tables : files[t] # NoFiles

\* C16: an OPTIONS request gets 200 and an empty body, a request that is
\* neither POST nor OPTIONS gets 405, with or without a token configured.
C16_OptionsAndOtherMethods ==
    http.kind = "reply" =>
        /\ http.req.method = "OPTIONS" => (http.status = 200 /\ http.text = "" /\ http.out = NoJSON)
        /\ http.req.method \notin {"POST", "OPTIONS"} => http.status = 405

C18_DestroyLeavesFreshEngine ==
    [][(batch'.kind = "destroy" /\ batch'.err = "") =>
         \A t \in Tables :
            /\ logs'[t] = "none"
            /\ logs[t] # "none" =>
                  /\ files'[t] = NoFiles
                  /\ db'[t] = NoDB
                  /\ SelectAt(Ctx(logs', db', files', nextId'), t).err # ""
                  /\ \E c1 \in {handleStatement(Ctx(logs', db', files', nextId'),
                                                Stmt("create", t, "a", NoRows), "none")} :
                        /\ c1.err = ""
                        /\ \E o \in {SelectAt(Ctx(c1.logs, c1.db, c1.files, c1.nextId), t)} :
                              o.err = "" /\ SelectCount(o) = 0]_vars

\* C18 witness: Destroy succeeded on an engine that had inserted rows.
C18_Witness ==
    /\ batch.kind = "destroy"
    /\ batch.err = ""
    /\ nextId > 1
    /\ \A t \in Tables : logs[t] = "none" /\ files[t] = NoFiles

(***************************************************************************)
(* Claims about delete (SpecFS).                                           *)
(***************************************************************************)
\* C19: delete of an absent object succeeds and changes nothing, and a
\* second delete of a path leaves the storage and the result of the first,
\* on the file system and on the object store.
C19_DeleteIdempotent ==
    [][fsLast'.op \in {"delete", "s3delete"} =>
         LET p == fsLast'.path IN
         /\ ~store[p].exists => (fsLast'.err = "" /\ store' = store /\ dirs' = dirs)
         /\ \E once \in {FSDelete(FSHere, p)} : \E twice \in {FSDelete(once.fs, p)} :
               once.err = "" /\ twice = once
         /\ \A a1, a2 \in DeleteAnswers :
               \E once \in {S3Delete(FSHere, p, a1)} : \E twice \in {S3Delete(once.fs, p, a2)} :
                  once.err = "" /\ twice = once]_vars

\* C19 witness: "d/q" was written and deleted, and is deleted once more.
C19_Witness ==
    /\ fsLast.op = "delete"
    /\ fsLast.path = "d/q"
    /\ ~fsLast.before.exists
    /\ fsLast.err = ""
    /\ "d" \in dirs
    /\ nops >= 3

C29_OneEventPerStatement ==
    [][(last'.kind = "stmt" /\ last'.err = "") =>
         \E q \in {last'.stmt} : \E t \in {q.table} :
            /\ q.kind \in DDLKinds =>
                  /\ db'[t].schema_log = Append(db[t].schema_log, q)
                  /\ db'[t].insert_log = db[t].insert_log
                  /\ files' = files
            /\ q.kind = "insert" =>
                  /\ db'[t].schema_log = db[t].schema_log
                  /\ Len(db'[t].insert_log) = Len(db[t].insert_log) + 1
                  /\ SubSeq(db'[t].insert_log, 1, Len(db[t].insert_log)) = db[t].insert_log
                  /\ \E row \in {db'[t].insert_log[Len(db'[t].insert_log)]} :
                        /\ row.tombstoned = 0
                        /\ row.id \notin DOMAIN files[t]
                        /\ DOMAIN files'[t] = DOMAIN files[t] \cup {row.id}
                        /\ row.size = ParquetSize(files'[t][row.id].rows)
                        /\ \A id \in DOMAIN files[t] : files'[t][id] = files[t][id]]_vars

\* C29 witness: a second INSERT succeeded on a table that had one file.
C29_Witness ==
    /\ StmtOk("insert")
    /\ \E t \in Tables :
          /\ Len(db[t].insert_log) = 2
          /\ Cardinality(DOMAIN files[t]) = 2
          /\ Len(db[t].schema_log) = 1

\* C27: when recovery or the execution of a CREATE TABLE or INSERT fails,
\* the statement adds no schema_log row, no insert_log row and no file.
C27_NoEventWithoutSuccess ==
    [][(last'.kind = "stmt" /\ last'.err # "" /\ last'.stmt.kind \in DDLKinds \cup {"insert"}) =>
         \E p \in {Parse(last'.stmt)} : \E c1 \in {Recover(Here, p, "none")} :
            \E c2 \in {IF c1.err # "" THEN c1 ELSE Execute(c1, p, last'.stmt, "none")} :
               (c2.err # "" \/ last'.err = "failed to create log directory") =>
                  /\ \A t \in Tables :
                        /\ db'[t].schema_log = db[t].schema_log
                        /\ db'[t].insert_log = db[t].insert_log
                  /\ files' = files]_vars

\* C27 witness: an INSERT into a created table was refused by the engine.
C27_Witness ==
    /\ StmtDone("insert")
    /\ last.err = "query error"
    /\ \E t \in Tables : db[t].schema_log # << >> /\ db[t].insert_log # << >>

(***************************************************************************)
(* Claims about VACUUM (Spec).                                             *)
(***************************************************************************)
\* C24: a successful VACUUM T tombstones the insert_log rows that were live
\* when it started, leaves the tombstoned ones as they were, and adds one
\* live row whose size is positive and is the size of the merged file.
C24_VacuumSwapsLiveSet ==
    [][(last'.kind = "stmt" /\ last'.err = "" /\ last'.stmt.kind = "vacuum") =>
         \E t \in {last'.stmt.table} : \E old \in {db[t].insert_log} : \E new \in {db'[t].insert_log} :
            /\ Len(new) = Len(old) + 1
            /\ \A i \in DOMAIN old :
                  /\ new[i].id = old[i].id
                  /\ new[i].tombstoned > 0
                  /\ old[i].tombstoned > 0 => new[i] = old[i]
            /\ \E row \in {new[Len(new)]} :
                  /\ row.tombstoned = 0
                  /\ row.id \notin AllIds(old)
                  /\ row.id \in DOMAIN files'[t]
                  /\ row.size > 0
                  /\ row.size = ParquetSize(files'[t][row.id].rows)
            /\ LiveIds(new) = {new[Len(new)].id}]_vars

\* C24 witness: a VACUUM merged two live files into one.
C24_Witness ==
    /\ StmtOk("vacuum")
    /\ \E t \in Tables :
          /\ Len(db[t].insert_log) >= 3
          /\ Cardinality(LiveIds(db[t].insert_log)) = 1
          /\ \E i, j \in DOMAIN db[t].insert_log :
                /\ i # j
                /\ db[t].insert_log[i].tombstoned = last.id
                /\ db[t].insert_log[j].tombstoned = last.id

\* C25: a VACUUM T whose write of the merged file fails returns an error
\* and leaves insert_log, and so the live set, as it was.
C25_FailedVacuumKeepsLiveSet ==
    [][(last'.kind = "stmt" /\ last'.stmt.kind = "vacuum" /\ last'.fail = "merge_copy") =>
         /\ last'.err # ""
         /\ \A t \in Tables :
               /\ db'[t].insert_log = db[t].insert_log
               /\ LiveIds(db'[t].insert_log) = LiveIds(db[t].insert_log)]_vars

\* C25 witness: a VACUUM of a table with a live file failed at the copy.
C25_Witness ==
    /\ StmtDone("vacuum")
    /\ last.err = "merge: copy failed"
    /\ \E t \in Tables : LiveIds(db[t].insert_log) # {}

\* C26: between statements the live set of a table is non-empty exactly
\* when the table has at least one persisted row.
C26_LiveSetIffRows ==
    \A t \in Tables :
        LiveIds(db[t].insert_log) # {} <=> BagSize(LiveRows(t)) > 0

(***************************************************************************)
(* Claims about the in-memory session (SpecConc).                          *)
(***************************************************************************)
\* C30: the session holds no table between statements: whatever recovery
\* and the statement did in the transaction is gone once the statement is
\* resolved, whether it succeeded or failed.
C30_SessionHoldsNothing ==
    /\ session = EmptyTx
    /\ \A r \in Reqs : rq[r].pc = "idle" => rq[r].tx = EmptyTx
    /\ \A r \in Reqs : rq[r].pc = "begun" => rq[r].tx = EmptyTx

\* C30 witness: a CREATE TABLE and an INSERT have succeeded and been
\* resolved, and nobody is in a transaction.
C30_Witness ==
    /\ \A r \in Reqs : rq[r].pc = "idle" /\ rq[r].n >= 1 /\ rq[r].err = ""
    /\ session = EmptyTx
    /\ \E t \in Tables : db[t].schema_log # << >> /\ db[t].insert_log # << >>

(***************************************************************************)
(* Claims about the map of Log handles (SpecHandles).                      *)
(***************************************************************************)
\* C23: the callers that hold a handle for a table hold the same one, it is
\* the one in the map, and an entry of the map is never replaced.
C23_OneHandlePerTable ==
    [][/\ \A r1, r2 \in Callers :
             (hreq'[r1].pc = "return" /\ hreq'[r2].pc = "return"
                 /\ hreq'[r1].table = hreq'[r2].table) => hreq'[r1].log = hreq'[r2].log
       /\ \A r \in Callers : hreq'[r].pc = "return" => hreq'[r].log = hmap'[hreq'[r].table]
       /\ \A t \in Tables : hmap[t] # 0 => hmap'[t] = hmap[t]]_vars

(***************************************************************************)
(* Claims about readers and writers at once (SpecConc).                    *)
(***************************************************************************)
\* The ids of the live rows of table t, in this state and in the next.
LiveNow(t) == LiveIds(db[t].insert_log)
LiveNext(t) == LiveIds(db'[t].insert_log)

\* C21: VACUUM swaps the live set in one step, whatever the other request is
\* doing.  The step in which a VACUUM makes its merged file live takes every
\* file it replaces out of the live set; and no file leaves the live set
\* unless, in the same step, the merged file of the VACUUM that replaces it,
\* already on disk, enters: no state in between has both the merged file and
\* a replaced one, or neither.
C21_VacuumSwapIsAtomic ==
    [][\A t \in Tables :
         /\ \A r \in Reqs :
              (rq[r].pc = "merged" /\ rq[r].stmt.table = t /\ rq[r].id \in LiveNext(t))
                  => LiveNext(t) = (LiveNow(t) \ rq[r].live) \cup {rq[r].id}
         /\ LiveNow(t) \ LiveNext(t) # {}
              => \E r \in Reqs :
                   /\ rq[r].pc = "merged" /\ rq[r].stmt.table = t
                   /\ LiveNext(t) \ LiveNow(t) = {rq[r].id}
                   /\ rq[r].id \in DOMAIN files'[t]
                   /\ LiveNow(t) \ LiveNext(t) \subseteq rq[r].live]_vars

\* A VACUUM has swapped a live file for its merged file while the other
\* request is between its Begin and its view build.
C21_Witness ==
    \E r1, r2 \in Reqs :
       /\ r1 # r2
       /\ rq[r1].stmt.kind = "vacuum" /\ rq[r1].pc = "executed" /\ rq[r1].live # {}
       /\ rq[r1].id \in LiveIds(db["t1"].insert_log)
       /\ rq[r2].stmt.kind = "select" /\ rq[r2].pc = "begun"

\* C22: a live set read while an INSERT on the same table is in progress names
\* only files that are on disk: the writer's file is there, or its row is not
\* yet in the live set.
C22_ReaderSeesOnlyWrittenFiles ==
    \A r \in Reqs :
        rq[r].pc = "merging" => rq[r].live \subseteq DOMAIN files[rq[r].stmt.table]

(***************************************************************************)
(* Claims about query splitting (SpecBatch).                               *)
(***************************************************************************)
\* The statements the engine finds in the queries qs, one per query, the
\* queries that hold no statement left out.
StatementsIn(qs) == [i \in DOMAIN SelectSeq(qs, HasStatement) |->
                        StatementOf(SelectSeq(qs, HasStatement)[i])]

\* C31: the body is cut only at a top-level ';'.  The statements the engine
\* is given are the statements of the body as SQL reads it: a ';' inside a
\* string literal or inside a '--' comment cuts nothing, and the statement
\* around it reaches the engine whole.
C31_SplitOnlyAtTopLevel ==
    batch.kind = "body" =>
        StatementsIn(SplitNonEmptyQueries(batch.body)) = StatementsIn(SqlStatements(batch.body))

\* C32: '--' comment lines at the head of a piece are skipped.  No query in
\* the list SplitNonEmptyQueries returns is a comment line, every query is
\* non-empty after trimming, and handleQuery starts a transaction only for
\* the queries that hold a statement.
C32_CommentLinesSkipped ==
    batch.kind = "body" =>
        \A qs \in {SplitNonEmptyQueries(batch.body)} :
           /\ \A i \in DOMAIN qs : TrimSpace(qs[i]) # << >> /\ Head(qs[i]).tok # "--"
           /\ batch.n <= Len(SelectSeq(qs, HasStatement))
           /\ batch.err = "" => batch.n = Len(SelectSeq(qs, HasStatement))

\* C38: whenever handleQuery returns without an error, the text it returns
\* is a JSON object, never the literal null: also for an empty body, a body
\* of blanks and a body that holds nothing but ';'.
C38_NeverJSONNull ==
    (batch.kind = "body" /\ batch.err = "") => batch.out.kind = "object"

(***************************************************************************)
(* Claims about the objects of the filesystem backend (SpecFS).            *)
(***************************************************************************)
FSNext == FSState(store', dirs')

\* C33: on the filesystem backend an object holds the bytes of the last
\* successful write to its path.  A successful write of d to p makes Read(p)
\* return d; no operation other than a successful write or delete of p
\* changes what Read(p) returns; and for every object that exists, the ETag
\* of Stat is the ETag of Read and is the MD5 of the bytes Read returns.
C33_ReadReturnsLastWrite ==
    [][\A p \in Paths :
         \A r \in {FSRead(FSNext, p)} : \A st \in {FSStat(FSNext, p)} :
            /\ (fsLast'.op = "write" /\ fsLast'.err = "" /\ fsLast'.path = p)
                  => r.err = "" /\ r.data = fsLast'.data
            /\ ~(fsLast'.op \in {"write", "delete", "s3delete"} /\ fsLast'.err = ""
                     /\ fsLast'.path = p)
                  => r = FSRead(FSHere, p)
            /\ r.err = ""
                  => st.err = "" /\ st.etag = r.etag /\ r.etag = bytesToETag(r.data)]_vars

\* A successful write has replaced the bytes of an object by other bytes.
C33_Witness ==
    /\ fsLast.op = "write" /\ fsLast.err = ""
    /\ fsLast.before.exists /\ fsLast.before.data # fsLast.data
    /\ FSRead(FSHere, fsLast.path).data = fsLast.data

\* C37: a write that carries an if_match creates or replaces nothing unless
\* the object exists and its ETag is the value given.  Otherwise it fails and
\* leaves the files and directories as they were: also when the value given
\* is the empty string, and when there is no object at the path.
C37_IfMatchGuardsEveryWrite ==
    [][(fsLast'.op = "write" /\ fsLast'.opts.given
           /\ ~(store[fsLast'.path].exists
                   /\ bytesToETag(store[fsLast'.path].data) = fsLast'.opts.etag))
          => fsLast'.err # "" /\ store' = store /\ dirs' = dirs]_vars

(***************************************************************************)
(* Claims about the durable state of a table (Spec).                       *)
(***************************************************************************)
\* C34: data files are write-once.  No step changes a file that is on disk,
\* and the file an INSERT or a VACUUM writes has a name no file had before.
C34_DataFilesWriteOnce ==
    [][/\ \A t \in Tables : \A id \in DOMAIN files[t] :
            id \in DOMAIN files'[t] => files'[t][id] = files[t][id]
       /\ \A t \in Tables : \A id \in DOMAIN files'[t] \ DOMAIN files[t] :
            /\ last'.kind = "stmt" /\ last'.stmt.kind \in {"insert", "vacuum"}
            /\ last'.stmt.table = t
            /\ id = last'.id
            /\ DOMAIN files'[t] = DOMAIN files[t] \cup {id}]_vars

\* A VACUUM has written its merged file next to the file of an INSERT.
C34_Witness ==
    /\ last.kind = "stmt" /\ last.stmt.kind = "vacuum" /\ last.err = ""
    /\ Cardinality(DOMAIN files[last.stmt.table]) >= 2
    /\ last.id \in DOMAIN files[last.stmt.table]

\* C35: only CreateTable, Insert and Vacuum change the durable state of a
\* table.  A statement that Parse takes for Select or Other (DROP among
\* them), whether it succeeds or fails, leaves every schema_log row, every
\* insert_log row and every data file as it was.
C35_SelectAndOtherChangeNothing ==
    [][(last'.kind = "stmt" /\ Parse(last'.stmt).op \in {"Select", "Other"}) =>
          \A t \in Tables :
             /\ db'[t].schema_log = db[t].schema_log
             /\ db'[t].insert_log = db[t].insert_log
             /\ files'[t] = files[t]]_vars

\* A SELECT was answered on a table that has a schema_log row, an insert_log
\* row and a data file.
C35_Witness ==
    /\ last.kind = "stmt" /\ last.stmt.kind = "select" /\ last.err = ""
    /\ db[last.stmt.table].schema_log # << >>
    /\ db[last.stmt.table].insert_log # << >>
    /\ DOMAIN files[last.stmt.table] # {}

\* C36: insert_log only grows and tombstones only go one way.  In every
\* step each row stays at its place with its id, a tombstone that is set
\* stays set, a new row has no tombstone, and a tombstone is set only by a
\* VACUUM on that table.
C36_InsertLogMonotonic ==
    [][\A t \in Tables :
         \A old \in {db[t].insert_log} : \A new \in {db'[t].insert_log} :
            /\ Len(new) >= Len(old)
            /\ \A i \in DOMAIN old :
                  /\ new[i].id = old[i].id
                  /\ old[i].tombstoned # 0 => new[i].tombstoned = old[i].tombstoned
                  /\ (old[i].tombstoned = 0 /\ new[i].tombstoned # 0)
                        => /\ last'.kind = "stmt" /\ last'.stmt.kind = "vacuum"
                           /\ last'.stmt.table = t
            /\ \A i \in DOMAIN new \ DOMAIN old : new[i].tombstoned = 0]_vars

\* An INSERT was logged in an insert_log that holds a tombstoned row.
C36_Witness ==
    /\ last.kind = "stmt" /\ last.stmt.kind = "insert" /\ last.err = ""
    /\ \E i \in DOMAIN db[last.stmt.table].insert_log :
          db[last.stmt.table].insert_log[i].tombstoned # 0
    /\ \E i \in DOMAIN db[last.stmt.table].insert_log :
          db[last.stmt.table].insert_log[i].id = last.id
====
